---- MODULE Spec2Model ----
(***************************************************************************)
(* Model of grep.rs: main (src/main.rs) and the hit handlers               *)
(* (src/hit_handling.rs).  One run of the program is one behaviour: the    *)
(* command line is fixed in Init, the file system and standard input are   *)
(* observed when the program opens or reads them.                          *)
(***************************************************************************)
EXTENDS Integers, Sequences, FiniteSets, TLC

\* ------------------------------------------------------------------ bounds
MaxFiles == 2
MaxLines == 2

\* ------------------------------------------------------------- input space
\* "-" names standard input (main.rs:150-153); "a" is a file path.
Paths == {"-", "a"}

\* byte-wise order of &str, the key order of BTreeMap<&str, usize>
Rank(p) == CASE p = "-" -> 45 [] p = "a" -> 97

Texts == {"foo bar", "baz"}

Patterns == {"foo", "["}

\* glob::ParsedGlobString::try_from(pattern).is_ok()
PatternParses(pattern) == pattern # "["

\* pattern.matches_partially(&line)
matches_partially(pattern, line) == pattern = "foo" /\ line = "foo bar"

SeqsUpTo(S, n) == UNION {[1..k -> S] : k \in 0..n}

\* the lines a stream can hold
Contents == SeqsUpTo(Texts, MaxLines)

\* Option<T>
None == <<>>
Some(x) == <<x>>

\* what File::options().read(true).open(path) can find at a path
FileStates == {[exists |-> FALSE, lines |-> <<>>]}
                  \cup {[exists |-> TRUE, lines |-> c] : c \in Contents}

NoExit == -1

VARIABLES
    args,                         \* struct Args
    pc,                           \* position in main
    exit_status,                  \* process exit status, NoExit while running
    normal_output, print_files, skip_file_after_first_match,
    hit_counter,                  \* Option<HitCounter>: None or Some(hits)
    hit_printer,                  \* Option<HitPrinter>
    hit_handlers,                 \* Vec<Box<&mut dyn HitHandler>>
    file_idx,                     \* position of the for loop over args.files
    reader,                       \* the open reader of the current source
    line_no,                      \* enumerate() index of the next line
    fs, stdin,                    \* environment: files, standard input
    stdout,                       \* lines written to standard output
    calls,                        \* history: calls made on the hit handlers
    evals,                        \* history: evaluations of the predicate
    sources,                      \* history: the sources opened so far
    given                         \* history: the files given on the command line

vars == <<args, pc, exit_status, normal_output, print_files,
          skip_file_after_first_match, hit_counter, hit_printer, hit_handlers,
          file_idx, reader, line_no, fs, stdin, stdout, calls, evals, sources,
          given>>

locals == <<normal_output, print_files, skip_file_after_first_match>>
handlers == <<hit_counter, hit_printer, hit_handlers>>
loop == <<file_idx, reader, line_no>>
env == <<fs, stdin>>
history == <<calls, evals, sources, given>>

\* ---------------------------------------------------------- hit_handling.rs

\* HitPrinter::new
HitPrinter_new(print_file_path, print_line, print_hit) ==
    [print_file_path |-> print_file_path, print_line |-> print_line,
     print_hit |-> print_hit]

\* mutant: the separator before the hit is printed whether or not anything
\* precedes it
HitPrinter_handle_hit_always_separates(self, file_path, line, hit) ==
    LET p1 == IF self.print_file_path THEN <<file_path>> ELSE <<>>
        p2 == IF self.print_line
              THEN p1 \o (IF Len(p1) > 0 THEN <<":">> ELSE <<>>)
                      \o <<ToString(line)>>
              ELSE p1
        p3 == IF self.print_hit THEN p2 \o <<":", hit>> ELSE p2
    IN  p3

\* HitPrinter::handle_hit: the fragments printed before the final "\n"; the
\* line number is printed in decimal
HitPrinter_handle_hit(self, file_path, line, hit) ==
    LET p1 == IF self.print_file_path THEN <<file_path>> ELSE <<>>
        p2 == IF self.print_line
              THEN p1 \o (IF Len(p1) > 0 THEN <<":">> ELSE <<>>)
                      \o <<ToString(line)>>
              ELSE p1
        p3 == IF self.print_hit
              THEN p2 \o (IF Len(p2) > 0 THEN <<":">> ELSE <<>>) \o <<hit>>
              ELSE p2
    IN  p3

\* HitCounter::new: an empty BTreeMap
HitCounter_new == [k \in {} |-> 0]

\* mutant: no entry is inserted
HitCounter_start_new_file_inserts_nothing(hits, file_path) == hits

\* mutant: the map is replaced by one that holds only the new file
HitCounter_start_new_file_clears(hits, file_path) ==
    [k \in {file_path} |-> 0]

\* HitCounter::start_new_file: BTreeMap::insert(file_path, 0)
HitCounter_start_new_file(hits, file_path) ==
    [k \in DOMAIN hits \cup {file_path} |->
        IF k = file_path THEN 0 ELSE hits[k]]

\* HitCounter::handle_hit: get_mut(file_path) is Some
HitCounter_has_entry(hits, file_path) == file_path \in DOMAIN hits

\* HitCounter::handle_hit: *get_mut(file_path).unwrap() += 1
HitCounter_handle_hit(hits, file_path) ==
    [hits EXCEPT ![file_path] = @ + 1]

\* HitCounterIter: btree_map::Iter yields the entries in key order
RECURSIVE HitCounterIterFrom(_, _)
HitCounterIterFrom(hits, keys) ==
    IF keys = {} THEN <<>>
    ELSE LET k == CHOOSE x \in keys : \A y \in keys : Rank(x) <= Rank(y)
         IN  <<(<<k, hits[k]>>)>> \o HitCounterIterFrom(hits, keys \ {k})

HitCounterIter(hits) == HitCounterIterFrom(hits, DOMAIN hits)

\* ------------------------------------------------------------------ main.rs

OutLine(kind, text) == [kind |-> kind, text |-> text]

Init ==
    /\ args \in [pattern : Patterns,
                 files : SeqsUpTo(Paths, MaxFiles),
                 invert_match : BOOLEAN,
                 force_print_filename : BOOLEAN,
                 force_no_print_filename : BOOLEAN,
                 print_line_number : BOOLEAN,
                 print_matching_files : BOOLEAN,
                 print_non_matching_files : BOOLEAN,
                 count_hits_per_file : BOOLEAN]
    /\ pc = "parse_args"
    /\ exit_status = NoExit
    /\ normal_output = TRUE
    /\ print_files = FALSE
    /\ skip_file_after_first_match = FALSE
    /\ hit_counter = None
    /\ hit_printer = None
    /\ hit_handlers = <<>>
    /\ file_idx = 1
    /\ reader = None
    /\ line_no = 0
    /\ fs = [p \in Paths \ {"-"} |-> None]     \* not yet observed
    /\ stdin = None                            \* not yet observed
    /\ stdout = <<>>
    /\ calls = <<>>
    /\ evals = <<>>
    /\ sources = <<>>
    /\ given = args.files

\* mutant: an empty file list is left empty
NormalizedFiles_unchanged(files) == files

\* main.rs:79-83  an empty file list means standard input
NormalizedFiles(files) == IF files = <<>> THEN <<"-">> ELSE files

ParseArgs ==
    /\ pc = "parse_args"
    /\ args' = [args EXCEPT !.files = NormalizedFiles(@)]
    /\ pc' = "compile_pattern"
    /\ UNCHANGED <<exit_status, locals, handlers, loop, env, stdout, history>>

\* main.rs:85-91
CompilePattern ==
    /\ pc = "compile_pattern"
    /\ IF PatternParses(args.pattern)
       THEN /\ pc' = "filename_options"
            /\ UNCHANGED <<stdout, exit_status>>
       ELSE /\ stdout' = Append(stdout,
                   OutLine("error", <<"could not parse pattern: ", args.pattern>>))
            /\ pc' = "return_pattern"
            /\ exit_status' = 0
    /\ UNCHANGED <<args, locals, handlers, loop, env, history>>

\* main.rs:99-100  -H together with -h
FilenameOptionsConflict(force_print_filename, force_no_print_filename) ==
    force_print_filename /\ force_no_print_filename

\* mutant: -H and -h are ignored
PrintFiles_default_only(files, force_print_filename, force_no_print_filename) ==
    Len(files) > 1

\* main.rs:94, 99-108  whether the file name is printed with each hit
PrintFiles(files, force_print_filename, force_no_print_filename) ==
    CASE force_no_print_filename /\ ~force_print_filename -> FALSE
      [] force_print_filename /\ ~force_no_print_filename -> TRUE
      [] OTHER -> Len(files) > 1

\* main.rs:93-108
FilenameOptions ==
    /\ pc = "filename_options"
    /\ normal_output' = TRUE
    /\ skip_file_after_first_match' = FALSE
    /\ IF FilenameOptionsConflict(args.force_print_filename,
                                  args.force_no_print_filename)
       THEN /\ stdout' = Append(stdout,
                   OutLine("error", <<"conflicting command line options: ",
                                      "--with-filename", "--no-filename">>))
            /\ pc' = "return_filename_options"
            /\ exit_status' = 0
            /\ print_files' = (Len(args.files) > 1)
       ELSE /\ print_files' = PrintFiles(args.files, args.force_print_filename,
                                         args.force_no_print_filename)
            /\ pc' = "mode_options"
            /\ UNCHANGED <<stdout, exit_status>>
    /\ UNCHANGED <<args, handlers, loop, env, history>>

\* mutant: the arm (_, true, true) is missing
ModeOptionsConflict_missing_arm(print_matching_files, print_non_matching_files, count_hits_per_file) ==
    \/ print_matching_files /\ print_non_matching_files
    \/ print_matching_files /\ count_hits_per_file

\* main.rs:111  two or more of -l, -L, -c
ModeOptionsConflict(print_matching_files, print_non_matching_files, count_hits_per_file) ==
    \/ print_matching_files /\ print_non_matching_files
    \/ print_matching_files /\ count_hits_per_file
    \/ print_non_matching_files /\ count_hits_per_file

\* mutant: the arm (false, false, true) does not clear normal_output
NormalOutput_kept_with_count(print_matching_files, print_non_matching_files, count_hits_per_file) ==
    ~(print_matching_files \/ print_non_matching_files)

\* main.rs:117-127  normal output is kept only when no mode flag is given
NormalOutput(print_matching_files, print_non_matching_files, count_hits_per_file) ==
    ~(print_matching_files \/ print_non_matching_files \/ count_hits_per_file)

\* mutant: -L skips the rest of a file too
SkipFileAfterFirstMatch_also_without_match(print_matching_files, print_non_matching_files, count_hits_per_file) ==
    (print_matching_files \/ print_non_matching_files) /\ ~count_hits_per_file

\* mutant: no mode skips the rest of a file
SkipFileAfterFirstMatch_never(print_matching_files, print_non_matching_files, count_hits_per_file) ==
    FALSE

\* main.rs:117-120  only -l skips the rest of a file after its first match
SkipFileAfterFirstMatch(print_matching_files, print_non_matching_files, count_hits_per_file) ==
    print_matching_files /\ ~print_non_matching_files /\ ~count_hits_per_file

\* main.rs:110-128
ModeOptions ==
    /\ pc = "mode_options"
    /\ IF ModeOptionsConflict(args.print_matching_files,
                              args.print_non_matching_files,
                              args.count_hits_per_file)
       THEN /\ stdout' = Append(stdout,
                   OutLine("error", <<"conflicting command line options: only one of ",
                                      "--files-with-match", "--files-without-match",
                                      "--count">>))
            /\ pc' = "return_mode_options"
            /\ exit_status' = 0
            /\ UNCHANGED <<normal_output, skip_file_after_first_match>>
       ELSE /\ normal_output' = NormalOutput(args.print_matching_files,
                                             args.print_non_matching_files,
                                             args.count_hits_per_file)
            /\ skip_file_after_first_match' =
                   SkipFileAfterFirstMatch(args.print_matching_files,
                                           args.print_non_matching_files,
                                           args.count_hits_per_file)
            /\ pc' = "create_handlers"
            /\ UNCHANGED <<stdout, exit_status>>
    /\ UNCHANGED <<args, print_files, handlers, loop, env, history>>

\* main.rs:130-133
NeedsHitCounter(a) ==
    a.count_hits_per_file \/ a.print_non_matching_files \/ a.print_matching_files

\* main.rs:141-143  the printer, if any, is pushed before the counter
HitHandlers(printer, counter) ==
    (IF printer # None THEN <<"hit_printer">> ELSE <<>>)
        \o (IF counter # None THEN <<"hit_counter">> ELSE <<>>)

\* main.rs:130-143
CreateHandlers ==
    /\ pc = "create_handlers"
    /\ hit_counter' = IF NeedsHitCounter(args) THEN Some(HitCounter_new) ELSE None
    /\ hit_printer' = IF normal_output
                      THEN Some(HitPrinter_new(print_files,
                                               args.print_line_number, TRUE))
                      ELSE None
    /\ hit_handlers' = HitHandlers(hit_printer', hit_counter')
    /\ pc' = "next_file"
    /\ UNCHANGED <<args, exit_status, locals, loop, env, stdout, history>>

\* mutant: start_new_file is not called for standard input
HandlerCalls_not_started_on_stdin(hs, op, file_path, src, line) ==
    IF op = "start_new_file" /\ file_path = "-" THEN <<>>
    ELSE [i \in 1..Len(hs) |-> [handler |-> hs[i], op |-> op,
                                file_path |-> file_path, src |-> src,
                                line |-> line]]

\* the calls of one pass over hit_handlers (main.rs:167-169, 178-180)
HandlerCalls(hs, op, file_path, src, line) ==
    [i \in 1..Len(hs) |-> [handler |-> hs[i], op |-> op,
                           file_path |-> file_path, src |-> src, line |-> line]]

\* dyn HitHandler dispatch: the counter after the calls cs, made in order
RECURSIVE CounterAfter(_, _)
CounterAfter(counter, cs) ==
    IF cs = <<>> THEN counter
    ELSE LET c == Head(cs)
             next == IF c.handler # "hit_counter" THEN counter
                     ELSE IF c.op = "start_new_file"
                     THEN Some(HitCounter_start_new_file(counter[1], c.file_path))
                     ELSE Some(HitCounter_handle_hit(counter[1], c.file_path))
         IN  CounterAfter(next, Tail(cs))

\* dyn HitHandler dispatch: the lines the printer writes for the calls cs
RECURSIVE PrintedBy(_, _, _)
PrintedBy(printer, cs, hit) ==
    IF cs = <<>> THEN <<>>
    ELSE LET c == Head(cs)
         IN  (IF c.handler = "hit_printer" /\ c.op = "handle_hit"
              THEN <<OutLine("hit", HitPrinter_handle_hit(printer[1],
                                        c.file_path, c.line, hit))>>
              ELSE <<>>) \o PrintedBy(printer, Tail(cs), hit)

\* a handle_hit call in cs reaches the counter, which has no entry for the file
CounterLookupFails(counter, cs) ==
    \E i \in 1..Len(cs) :
        /\ cs[i].handler = "hit_counter"
        /\ cs[i].op = "handle_hit"
        /\ ~HitCounter_has_entry(counter[1], cs[i].file_path)

\* main.rs:148  the for loop over args.files has run out
FilesExhausted ==
    /\ pc = "next_file"
    /\ file_idx > Len(args.files)
    /\ pc' = "final_output"
    /\ UNCHANGED <<args, exit_status, locals, handlers, loop, env, stdout,
                   history>>

\* main.rs:150-154, 167-169  "-" reads the process-wide standard input
OpenStdin ==
    /\ pc = "next_file"
    /\ file_idx <= Len(args.files)
    /\ args.files[file_idx] = "-"
    /\ \E c \in Contents :
          /\ stdin = None \/ stdin = Some(c)
          /\ stdin' = Some(c)
          /\ sources' = Append(sources, [id |-> "-", lines |-> c])
    /\ reader' = Some([is_stdin |-> TRUE, buf |-> <<>>])
    /\ line_no' = 0
    /\ LET cs == HandlerCalls(hit_handlers, "start_new_file", "-", file_idx, 0)
       IN  /\ hit_counter' = CounterAfter(hit_counter, cs)
           /\ calls' = calls \o cs
    /\ pc' = "lines"
    /\ UNCHANGED <<args, exit_status, locals, hit_printer, hit_handlers,
                   file_idx, fs, stdout, evals, given>>

\* main.rs:155-169  a path that opens
OpenFile ==
    /\ pc = "next_file"
    /\ file_idx <= Len(args.files)
    /\ LET file_path == args.files[file_idx] IN
       /\ file_path # "-"
       /\ \E st \in FileStates :
             /\ st.exists
             /\ fs[file_path] = None \/ fs[file_path] = Some(st)
             /\ fs' = [fs EXCEPT ![file_path] = Some(st)]
             /\ reader' = Some([is_stdin |-> FALSE, buf |-> st.lines])
             /\ sources' = Append(sources, [id |-> file_path, lines |-> st.lines])
       /\ line_no' = 0
       /\ LET cs == HandlerCalls(hit_handlers, "start_new_file", file_path,
                                 file_idx, 0)
          IN  /\ hit_counter' = CounterAfter(hit_counter, cs)
              /\ calls' = calls \o cs
    /\ pc' = "lines"
    /\ UNCHANGED <<args, exit_status, locals, hit_printer, hit_handlers,
                   file_idx, stdin, stdout, evals, given>>

\* mutant: a failed open skips the file and goes on with the next
OpenFailure_continue(idx) ==
    [pc |-> "next_file", file_idx |-> idx + 1, exit_status |-> NoExit]

\* main.rs:157-161  a failed open returns from main
OpenFailure(idx) == [pc |-> "return_open", file_idx |-> idx, exit_status |-> 0]

\* main.rs:156-161  a path that does not open
OpenFileFails ==
    /\ pc = "next_file"
    /\ file_idx <= Len(args.files)
    /\ LET file_path == args.files[file_idx] IN
       /\ file_path # "-"
       /\ \E st \in FileStates :
             /\ ~st.exists
             /\ fs[file_path] = None \/ fs[file_path] = Some(st)
             /\ fs' = [fs EXCEPT ![file_path] = Some(st)]
       /\ stdout' = Append(stdout,
              OutLine("error", <<"could not open file ", file_path>>))
    /\ pc' = OpenFailure(file_idx).pc
    /\ file_idx' = OpenFailure(file_idx).file_idx
    /\ exit_status' = OpenFailure(file_idx).exit_status
    /\ UNCHANGED <<args, locals, handlers, reader, line_no, stdin, history>>

\* the lines the open reader has not yet yielded
Remaining == IF reader[1].is_stdin THEN stdin[1] ELSE reader[1].buf

\* main.rs:171, 185  reader.lines() yields None
EndOfSource ==
    /\ pc = "lines"
    /\ Remaining = <<>>
    /\ reader' = None
    /\ file_idx' = file_idx + 1
    /\ pc' = "next_file"
    /\ UNCHANGED <<args, exit_status, locals, handlers, line_no, env, stdout,
                   history>>

\* mutant: the result is negated whether or not -v is given
LineMatches_always_inverts(pattern, invert_match, line) ==
    ~matches_partially(pattern, line)

\* mutant: -v is ignored
LineMatches_ignores_invert(pattern, invert_match, line) ==
    matches_partially(pattern, line)

\* main.rs:173-176
LineMatches(pattern, invert_match, line) ==
    IF invert_match THEN ~matches_partially(pattern, line)
    ELSE matches_partially(pattern, line)

\* main.rs:172  lines() yields an Err (invalid UTF-8, read error): line.unwrap()
\* panics
ReadLineFails ==
    /\ pc = "lines"
    /\ Remaining # <<>>
    /\ pc' = "panic_line"
    /\ exit_status' = 101
    /\ UNCHANGED <<args, locals, handlers, loop, env, stdout, history>>

\* main.rs:171-185  one iteration of the loop over the lines of a source
ReadLine ==
    /\ pc = "lines"
    /\ Remaining # <<>>
    /\ LET line == Head(Remaining)
           file_path == args.files[file_idx]
           rest == IF reader[1].is_stdin
                   THEN reader[1]
                   ELSE [reader[1] EXCEPT !.buf = Tail(@)]
           cs == HandlerCalls(hit_handlers, "handle_hit", file_path, file_idx,
                              line_no + 1)
       IN
       /\ stdin' = IF reader[1].is_stdin THEN Some(Tail(stdin[1])) ELSE stdin
       /\ evals' = Append(evals, [src |-> file_idx, line |-> line_no + 1])
       /\ line_no' = line_no + 1
       /\ IF ~LineMatches(args.pattern, args.invert_match, line)
          THEN /\ reader' = Some(rest)
               /\ UNCHANGED <<pc, exit_status, hit_counter, file_idx,
                              stdout, calls>>
          ELSE
          /\ calls' = calls \o cs
          /\ stdout' = stdout \o PrintedBy(hit_printer, cs, line)
          /\ IF CounterLookupFails(hit_counter, cs)
             THEN \* get_mut(file_path).unwrap() panics
                  /\ pc' = "panic_handle_hit"
                  /\ exit_status' = 101
                  /\ reader' = Some(rest)
                  /\ UNCHANGED <<hit_counter, file_idx>>
             ELSE
             /\ hit_counter' = CounterAfter(hit_counter, cs)
             /\ UNCHANGED exit_status
             /\ IF skip_file_after_first_match
                THEN \* break
                     /\ reader' = None
                     /\ file_idx' = file_idx + 1
                     /\ pc' = "next_file"
                ELSE /\ reader' = Some(rest)
                     /\ UNCHANGED <<pc, file_idx>>
    /\ UNCHANGED <<args, locals, hit_printer, hit_handlers, fs, sources,
                   given>>

\* main.rs:189-194  -l: the entries with count > 0
MatchingFilesOutput(hits) ==
    LET sel == SelectSeq(HitCounterIter(hits), LAMBDA e : e[2] > 0)
    IN  [i \in 1..Len(sel) |-> OutLine("with", <<sel[i][1]>>)]

\* main.rs:196-201  -L: the entries with count == 0
NonMatchingFilesOutput(hits) ==
    LET sel == SelectSeq(HitCounterIter(hits), LAMBDA e : e[2] = 0)
    IN  [i \in 1..Len(sel) |-> OutLine("without", <<sel[i][1]>>)]

\* main.rs:203-208  -c: "file:count" for every entry
CountOutput(hits) ==
    LET all == HitCounterIter(hits)
    IN  [i \in 1..Len(all) |-> OutLine("count", <<all[i][1], ":", ToString(all[i][2])>>)]

\* main.rs:189-212  the aggregate output, then main returns
FinalOutput ==
    /\ pc = "final_output"
    /\ stdout' = stdout
          \o (IF args.print_matching_files
              THEN MatchingFilesOutput(hit_counter[1]) ELSE <<>>)
          \o (IF args.print_non_matching_files
              THEN NonMatchingFilesOutput(hit_counter[1]) ELSE <<>>)
          \o (IF args.count_hits_per_file
              THEN CountOutput(hit_counter[1]) ELSE <<>>)
    /\ pc' = "done"
    /\ exit_status' = 0
    /\ UNCHANGED <<args, locals, handlers, loop, env, history>>

Next ==
    \/ ParseArgs
    \/ CompilePattern
    \/ FilenameOptions
    \/ ModeOptions
    \/ CreateHandlers
    \/ FilesExhausted
    \/ OpenStdin
    \/ OpenFile
    \/ OpenFileFails
    \/ EndOfSource
    \/ ReadLineFails
    \/ ReadLine
    \/ FinalOutput

Spec == Init /\ [][Next]_vars

\* ------------------------------------------- the printer taken on its own
\* HitPrinter (hit_handling.rs:9-47) driven through its HitHandler interface
\* with every configuration of its three switches.
MaxCalls == 2

PrinterInit ==
    /\ hit_printer \in {Some(HitPrinter_new(f, l, h)) : f, l, h \in BOOLEAN}
    /\ hit_handlers = <<"hit_printer">>
    /\ hit_counter = None
    /\ args = [pattern |-> "foo", files |-> <<>>, invert_match |-> FALSE,
               force_print_filename |-> FALSE,
               force_no_print_filename |-> FALSE,
               print_line_number |-> FALSE, print_matching_files |-> FALSE,
               print_non_matching_files |-> FALSE,
               count_hits_per_file |-> FALSE]
    /\ pc = "printer"
    /\ exit_status = NoExit
    /\ normal_output = TRUE
    /\ print_files = FALSE
    /\ skip_file_after_first_match = FALSE
    /\ file_idx = 1
    /\ reader = None
    /\ line_no = 0
    /\ fs = [p \in Paths \ {"-"} |-> None]
    /\ stdin = None
    /\ stdout = <<>>
    /\ calls = <<>>
    /\ evals = <<>>
    /\ sources = <<>>
    /\ given = <<>>

\* hit_handling.rs:27  HitPrinter::start_new_file does nothing
PrinterStartNewFile ==
    /\ pc = "printer"
    /\ Len(calls) < MaxCalls
    /\ \E file_path \in Paths :
          calls' = Append(calls, [handler |-> "hit_printer",
                                  op |-> "start_new_file",
                                  file_path |-> file_path, line |-> 0,
                                  hit |-> ""])
    /\ UNCHANGED <<args, pc, exit_status, locals, handlers, loop, env, stdout,
                   evals, sources, given>>

\* hit_handling.rs:29-46  HitPrinter::handle_hit writes one line
PrinterHandleHit ==
    /\ pc = "printer"
    /\ Len(calls) < MaxCalls
    /\ \E file_path \in Paths, line \in 1..MaxLines, hit \in Texts :
          LET c == [handler |-> "hit_printer", op |-> "handle_hit",
                    file_path |-> file_path, line |-> line, hit |-> hit]
          IN  /\ calls' = Append(calls, c)
              /\ stdout' = stdout \o PrintedBy(hit_printer, <<c>>, hit)
    /\ UNCHANGED <<args, pc, exit_status, locals, handlers, loop, env, evals,
                   sources, given>>

PrinterNext == PrinterStartNewFile \/ PrinterHandleHit

SpecPrinter == PrinterInit /\ [][PrinterNext]_vars

\* ------------------------------------------------------------ properties

Completed == pc = "done"

CountMode == args.count_hits_per_file /\ ~args.print_matching_files
                 /\ ~args.print_non_matching_files
FilesWithMatchMode == args.print_matching_files /\ ~args.count_hits_per_file
                          /\ ~args.print_non_matching_files
FilesWithoutMatchMode == args.print_non_matching_files
                             /\ ~args.count_hits_per_file
                             /\ ~args.print_matching_files

\* the lines of a source that satisfy the (possibly inverted) predicate
MatchingLines(lines) ==
    {j \in 1..Len(lines) : LineMatches(args.pattern, args.invert_match, lines[j])}

\* the ordinal of the first such line, 0 when there is none
FirstMatch(lines) ==
    IF MatchingLines(lines) = {} THEN 0
    ELSE CHOOSE j \in MatchingLines(lines) : \A k \in MatchingLines(lines) : j <= k

OutputOfKind(kind) == SelectSeq(stdout, LAMBDA o : o.kind = kind)

AggregateOutput ==
    SelectSeq(stdout, LAMBDA o : o.kind \in {"with", "without", "count"})

\* the position at which an id is first given on the command line
FirstGiven(id) ==
    CHOOSE i \in 1..Len(args.files) :
        /\ args.files[i] = id
        /\ \A j \in 1..(i - 1) : args.files[j] # id

\* C1: in count mode, after a run in which every source opened, each source
\* supplied has an output line "id:count" whose count is the number of its
\* lines that satisfy the (possibly inverted) predicate.
C1_CountIsMatchingLines ==
    (Completed /\ CountMode) =>
        \A i \in 1..Len(sources) :
            \E k \in 1..Len(stdout) :
                /\ stdout[k].kind = "count"
                /\ stdout[k].text[1] = sources[i].id
                /\ stdout[k].text[3]
                       = ToString(Cardinality(MatchingLines(sources[i].lines)))

\* C2: in every aggregate mode the lines of the final output are in the order
\* in which the sources were given on the command line.
C2_AggregateOutputInGivenOrder ==
    Completed =>
        \A k1, k2 \in 1..Len(AggregateOutput) :
            k1 < k2 => FirstGiven(AggregateOutput[k1].text[1])
                           <= FirstGiven(AggregateOutput[k2].text[1])

\* C3: in files-with-match mode, after a completed run, the id of a source is
\* in the output iff at least one line of that source satisfies the predicate.
C3_ListedIffSomeLineMatches ==
    (Completed /\ FilesWithMatchMode) =>
        \A i \in 1..Len(sources) :
            (\E k \in 1..Len(stdout) : /\ stdout[k].kind = "with"
                                       /\ stdout[k].text[1] = sources[i].id)
                <=> MatchingLines(sources[i].lines) # {}

\* C4: in files-without-match mode, after a completed run, the id of a source
\* is in the output iff no line of that source satisfies the predicate.
C4_ListedIffNoLineMatches ==
    (Completed /\ FilesWithoutMatchMode) =>
        \A i \in 1..Len(sources) :
            (\E k \in 1..Len(stdout) : /\ stdout[k].kind = "without"
                                       /\ stdout[k].text[1] = sources[i].id)
                <=> MatchingLines(sources[i].lines) = {}


\* the ordinals of the lines of source i on which the predicate was evaluated
EvaluatedLines(i) ==
    {evals[k].line : k \in {k \in 1..Len(evals) : evals[k].src = i}}

\* C5: in files-with-match mode the predicate is never evaluated on a line
\* that comes after a line of the same source that satisfied it, no line is
\* evaluated twice, and once the pipeline has left a source that has a
\* matching line it has evaluated exactly the lines 1..first match of it.
C5_EarlyTermination ==
    FilesWithMatchMode =>
        /\ \A k \in 1..Len(evals) :
               /\ evals[k].line <= Len(sources[evals[k].src].lines)
               /\ \A j \in 1..(evals[k].line - 1) :
                      j \notin MatchingLines(sources[evals[k].src].lines)
               /\ \A k2 \in 1..Len(evals) : evals[k2] = evals[k] => k2 = k
        /\ \A i \in 1..Len(sources) :
               (i < file_idx /\ FirstMatch(sources[i].lines) > 0) =>
                   EvaluatedLines(i) = 1..FirstMatch(sources[i].lines)

\* a source whose first matching line is followed by a further line has been
\* left, and the next source has been begun
C5_Witness ==
    /\ FilesWithMatchMode
    /\ Len(sources) = 2
    /\ FirstMatch(sources[1].lines) > 0
    /\ FirstMatch(sources[1].lines) < Len(sources[1].lines)
    /\ EvaluatedLines(1) = 1..FirstMatch(sources[1].lines)

\* C6: every error return ends the run with a non-zero exit status; status
\* zero only after a run that processed all sources.
C6_ErrorsExitNonZero ==
    exit_status = 0 => Completed

OpenFailed ==
    \E k \in 1..Len(stdout) :
        stdout[k].kind = "error" /\ stdout[k].text[1] = "could not open file "

\* the lines the printer has been asked to print, from the calls made on it
RECURSIVE PrinterLines(_)
PrinterLines(cs) ==
    IF cs = <<>> THEN <<>>
    ELSE (IF Head(cs).handler = "hit_printer" /\ Head(cs).op = "handle_hit"
          THEN <<OutLine("hit", HitPrinter_handle_hit(hit_printer[1],
                     Head(cs).file_path, Head(cs).line,
                     sources[Head(cs).src].lines[Head(cs).line]))>>
          ELSE <<>>) \o PrinterLines(Tail(cs))

\* C7: once the k-th source has failed to open, no handler is called for
\* source k or a later one, no further source is opened, the output holds no
\* aggregate line, and it holds the match lines of the sources before k.
C7_OpenFailureStopsRun ==
    OpenFailed =>
        LET k == Len(sources) + 1 IN
        /\ \A c \in 1..Len(calls) : calls[c].src < k
        /\ \A e \in 1..Len(evals) : evals[e].src < k
        /\ file_idx = k
        /\ AggregateOutput = <<>>
        /\ OutputOfKind("hit") = PrinterLines(calls)
        /\ pc = "return_open"

\* the second source failed to open after the first printed a match line
C7_Witness ==
    /\ OpenFailed
    /\ Len(sources) = 1
    /\ Len(OutputOfKind("hit")) > 0

MutuallyExclusiveFlagsGiven ==
    \/ args.force_print_filename /\ args.force_no_print_filename
    \/ Cardinality({f \in {"l", "L", "c"} :
           \/ f = "l" /\ args.print_matching_files
           \/ f = "L" /\ args.print_non_matching_files
           \/ f = "c" /\ args.count_hits_per_file}) >= 2

\* C8: when -H and -h, or two or more of -l, -L, -c, are given, no source is
\* ever opened or read, no handler is ever called, and the output never holds
\* a match line or an aggregate line.
C8_ConflictAbortsBeforeSources ==
    MutuallyExclusiveFlagsGiven =>
        /\ sources = <<>>
        /\ \A p \in DOMAIN fs : fs[p] = None
        /\ stdin = None
        /\ calls = <<>>
        /\ evals = <<>>
        /\ OutputOfKind("hit") = <<>>
        /\ AggregateOutput = <<>>
        /\ pc \in {"parse_args", "compile_pattern", "filename_options",
                   "mode_options", "return_pattern",
                   "return_filename_options", "return_mode_options"}

\* the run has returned on two of -l, -L, -c
C8_Witness ==
    /\ MutuallyExclusiveFlagsGiven
    /\ pc = "return_mode_options"
    /\ Len(args.files) = 2

StartNewFileCalls(h) ==
    Cardinality({k \in 1..Len(calls) :
        calls[k].handler = h /\ calls[k].op = "start_new_file"})

ActiveHandlers == {hit_handlers[i] : i \in 1..Len(hit_handlers)}

\* the number of sources supplied, an empty list counting as standard input
SourcesSupplied == IF given = <<>> THEN 1 ELSE Len(given)

\* C9 as stated: when the run has ended, whatever the input, every active
\* handler has received as many start_new_file calls as sources were supplied.
C9_StartCallsEqualSourcesAlways ==
    exit_status # NoExit =>
        \A h \in ActiveHandlers : StartNewFileCalls(h) = SourcesSupplied

\* C9 amended: when the run has completed (every source opened and read to
\* its end or to its early stop), every active handler has received as many
\* start_new_file calls as sources were supplied, at least one.
C9_StartCallsEqualSourcesWhenCompleted ==
    Completed =>
        /\ ActiveHandlers # {}
        /\ \A h \in ActiveHandlers : StartNewFileCalls(h) = SourcesSupplied

\* a run with no file given has completed on standard input
C9_Witness ==
    /\ Completed
    /\ given = <<>>
    /\ \A h \in ActiveHandlers : StartNewFileCalls(h) = 1
    /\ Len(evals) > 0

\* C10: on every active handler, each source begun has exactly one
\* start_new_file call, and each handle_hit call for a source comes after the
\* start_new_file of that source and before the start_new_file of any later
\* source.
C10_SinkProtocolOrder ==
    \A h \in ActiveHandlers :
        /\ \A i \in 1..Len(sources) :
               Cardinality({k \in 1..Len(calls) :
                   /\ calls[k].handler = h
                   /\ calls[k].op = "start_new_file"
                   /\ calls[k].src = i}) = 1
        /\ \A k \in 1..Len(calls) :
               (calls[k].handler = h /\ calls[k].op = "handle_hit") =>
                   /\ \E j \in 1..(k - 1) :
                          /\ calls[j].handler = h
                          /\ calls[j].op = "start_new_file"
                          /\ calls[j].src = calls[k].src
                          /\ calls[j].file_path = calls[k].file_path
                   /\ \A j \in 1..(k - 1) :
                          (calls[j].handler = h /\ calls[j].op = "start_new_file")
                              => calls[j].src <= calls[k].src
                   /\ \A j \in (k + 1)..Len(calls) :
                          (calls[j].handler = h /\ calls[j].op = "start_new_file")
                              => calls[j].src > calls[k].src

\* two sources have each been begun and have each had a hit handled
C10_Witness ==
    /\ Len(sources) = 2
    /\ \E k1, k2 \in 1..Len(calls) :
           /\ calls[k1].op = "handle_hit" /\ calls[k1].src = 1
           /\ calls[k2].op = "handle_hit" /\ calls[k2].src = 2


NormalMode == ~args.print_matching_files /\ ~args.print_non_matching_files
                  /\ ~args.count_hits_per_file

\* <<source, ordinal>> of each handle_hit call made on the printer, in order
PrinterHits ==
    LET cs == SelectSeq(calls, LAMBDA c : c.handler = "hit_printer"
                                              /\ c.op = "handle_hit")
    IN  [k \in 1..Len(cs) |-> <<cs[k].src, cs[k].line>>]

\* the lines read so far whose match result differs from the -v flag
SatisfyingLinesRead ==
    {<<i, j>> \in (1..Len(sources)) \X (1..MaxLines + 1) :
        /\ j \in EvaluatedLines(i)
        /\ matches_partially(args.pattern, sources[i].lines[j])
               # args.invert_match}

LexLess(p, q) == p[1] < q[1] \/ (p[1] = q[1] /\ p[2] < q[2])

\* C11: in normal mode the output holds one line per line read that
\* satisfies the (possibly inverted) predicate, in source-then-line order and
\* ending in that line's text; after a completed run every line of every
\* source has been read, so none is omitted.
C11_NormalOutputInSourceLineOrder ==
    NormalMode =>
        LET out == OutputOfKind("hit") IN
        /\ Len(out) = Len(PrinterHits)
        /\ {PrinterHits[k] : k \in 1..Len(PrinterHits)} = SatisfyingLinesRead
        /\ \A k \in 1..(Len(PrinterHits) - 1) :
               LexLess(PrinterHits[k], PrinterHits[k + 1])
        /\ \A k \in 1..Len(out) :
               out[k].text[Len(out[k].text)]
                   = sources[PrinterHits[k][1]].lines[PrinterHits[k][2]]
        /\ Completed =>
               /\ \A i \in 1..Len(sources) :
                      EvaluatedLines(i) = 1..Len(sources[i].lines)
               /\ Len(sources) = Len(args.files)

\* a completed run in normal mode printed lines of two sources
C11_Witness ==
    /\ NormalMode
    /\ Completed
    /\ Len(OutputOfKind("hit")) >= 3
    /\ \E k \in 1..Len(PrinterHits) : PrinterHits[k][1] = 2


\* the fields of a handle_hit call that the switches of the printer enable,
\* in the order name, ordinal, text
EnabledFields(printer, c) ==
    (IF printer.print_file_path THEN <<c.file_path>> ELSE <<>>)
        \o (IF printer.print_line THEN <<ToString(c.line)>> ELSE <<>>)
        \o (IF printer.print_hit THEN <<c.hit>> ELSE <<>>)

\* fields joined by ":"
Joined(fields) ==
    [k \in 1..(IF fields = <<>> THEN 0 ELSE 2 * Len(fields) - 1) |->
        IF k % 2 = 1 THEN fields[(k + 1) \div 2] ELSE ":"]

\* C12: the printer writes exactly one line per handle_hit call (none for
\* start_new_file), holding the enabled fields among name, ordinal and text
\* in that order, joined by ":" with nothing before the first; with no field
\* enabled the line is empty.
C12_PrinterLineFormat ==
    LET hits == SelectSeq(calls, LAMBDA c : c.op = "handle_hit") IN
    /\ Len(stdout) = Len(hits)
    /\ \A k \in 1..Len(stdout) :
           /\ stdout[k].kind = "hit"
           /\ stdout[k].text = Joined(EnabledFields(hit_printer[1], hits[k]))
           /\ (~hit_printer[1].print_file_path /\ ~hit_printer[1].print_line
                  /\ ~hit_printer[1].print_hit) => stdout[k].text = <<>>

\* a printer with all three fields enabled has written two lines of five
\* fragments each
C12_Witness ==
    /\ Len(stdout) = 2
    /\ hit_printer[1].print_file_path
    /\ hit_printer[1].print_line
    /\ hit_printer[1].print_hit
    /\ Len(stdout[1].text) = 5
    /\ stdout[1].text[1] = calls[1].file_path


HandlersCreated ==
    pc \in {"next_file", "lines", "final_output", "done", "return_open",
            "panic_line", "panic_handle_hit"}

AggregateMode == CountMode \/ FilesWithMatchMode \/ FilesWithoutMatchMode

\* C13: in normal mode the printer is the only handler and there is no
\* counter, and no aggregate line is ever printed; in each of the modes -l,
\* -L, -c the counter is the only handler and there is no printer, and no
\* match line is ever printed.
C13_ActivationPlan ==
    /\ NormalMode =>
           /\ AggregateOutput = <<>>
           /\ HandlersCreated =>
                  /\ hit_handlers = <<"hit_printer">>
                  /\ hit_printer # None
                  /\ hit_counter = None
    /\ AggregateMode =>
           /\ OutputOfKind("hit") = <<>>
           /\ HandlersCreated =>
                  /\ hit_handlers = <<"hit_counter">>
                  /\ hit_counter # None
                  /\ hit_printer = None

\* a completed count-mode run over a source with a matching line
C13_Witness ==
    /\ CountMode
    /\ Completed
    /\ AggregateOutput # <<>>
    /\ \E i \in 1..Len(sources) : MatchingLines(sources[i].lines) # {}

FilenameOptionsPassed ==
    pc \notin {"parse_args", "compile_pattern", "filename_options",
               "return_pattern", "return_filename_options"}

\* C14: once the filename options are settled, file names are printed iff -H
\* is given, or neither -H nor -h is given and more than one source is
\* supplied; the printer is built with that setting and each match line
\* starts with the file name exactly then.
C14_FilenamePrinting ==
    FilenameOptionsPassed =>
        LET on == \/ args.force_print_filename
                  \/ /\ ~args.force_print_filename
                     /\ ~args.force_no_print_filename
                     /\ SourcesSupplied > 1
        IN  /\ print_files = on
            /\ hit_printer # None => hit_printer[1].print_file_path = on
            /\ \A k \in 1..Len(PrinterHits) :
                   LET text == OutputOfKind("hit")[k].text IN
                   IF on
                   THEN /\ text[1] = args.files[PrinterHits[k][1]]
                        /\ text[2] = ":"
                   ELSE \A f \in 1..Len(text) : text[f] \notin Paths

\* -h with two sources: a match line without a file name has been printed
C14_Witness ==
    /\ args.force_no_print_filename
    /\ Len(given) = 2
    /\ Len(OutputOfKind("hit")) > 0
    /\ OutputOfKind("hit")[1].text[1] \notin Paths


AllLines ==
    {<<i, j>> \in (1..Len(sources)) \X (1..MaxLines + 1) :
        j <= Len(sources[i].lines)}

PatternLines ==
    {p \in AllLines :
        matches_partially(args.pattern, sources[p[1]].lines[p[2]])}

\* C15: after a completed run in normal mode, the (source, ordinal) pairs
\* printed are the lines the pattern matches when -v is not given and the
\* lines it does not match when -v is given, each once; so for the same
\* sources and pattern the two outputs are disjoint and together hold every
\* line of every source once.
C15_InversionPartitions ==
    (NormalMode /\ Completed) =>
        LET printed == {PrinterHits[k] : k \in 1..Len(PrinterHits)} IN
        /\ Cardinality(printed) = Len(PrinterHits)
        /\ printed = IF args.invert_match THEN AllLines \ PatternLines
                     ELSE PatternLines

\* a completed -v run printed some lines and left others out
C15_Witness ==
    /\ NormalMode
    /\ Completed
    /\ args.invert_match
    /\ PrinterHits # <<>>
    /\ PatternLines # {}

\* the tally, empty while there is no counter
Tally == IF hit_counter = None THEN HitCounter_new ELSE hit_counter[1]

\* C16: whenever there is a counter, every source opened so far has an entry
\* in it (so also when the tally is queried); no step removes an entry; and
\* while no further source is begun, the count of the source last begun does
\* not decrease.
C16_TallyInvariant ==
    /\ [](hit_counter # None =>
             \A i \in 1..Len(sources) : sources[i].id \in DOMAIN Tally)
    /\ [][/\ DOMAIN Tally \subseteq DOMAIN Tally'
          /\ (hit_counter # None /\ sources # <<>> /\ sources' = sources) =>
                 Tally'[sources[Len(sources)].id]
                     >= Tally[sources[Len(sources)].id]]_vars

\* the tally is about to be queried with a zero entry and a counted one
C16_Witness ==
    /\ pc = "final_output"
    /\ hit_counter # None
    /\ \E p, q \in DOMAIN Tally : Tally[p] = 0 /\ Tally[q] > 0


\* C17: start_new_file never lands on an existing entry: whenever there is a
\* counter it holds one entry for each source begun so far, and so one per
\* supplied source after a completed run.
C17_OneEntryPerSource ==
    hit_counter # None =>
        /\ Cardinality(DOMAIN Tally) = Len(sources)
        /\ Completed => Cardinality(DOMAIN Tally) = SourcesSupplied

\* C18: when -l is not given, early stop is off, no line is evaluated twice,
\* the lines evaluated of a source are always the first ones, a source is
\* left only when every line of it has been evaluated, and the only other
\* way the reading of a begun source ends is a failed read.
C18_NoEarlyStopOutsideFilesWithMatch ==
    ~args.print_matching_files =>
        /\ ~skip_file_after_first_match
        /\ \A k1, k2 \in 1..Len(evals) : evals[k1] = evals[k2] => k1 = k2
        /\ \A i \in 1..Len(sources) :
               /\ EvaluatedLines(i) = 1..Cardinality(EvaluatedLines(i))
               /\ (i < file_idx \/ Completed) =>
                      EvaluatedLines(i) = 1..Len(sources[i].lines)
               /\ i >= file_idx => pc \in {"lines", "panic_line"}

\* a count-mode run has read on past a first-line match to the end
C18_Witness ==
    /\ CountMode
    /\ Completed
    /\ \E i \in 1..Len(sources) :
           /\ FirstMatch(sources[i].lines) = 1
           /\ Len(sources[i].lines) = 2
           /\ EvaluatedLines(i) = {1, 2}

\* C19: the lookup in HitCounter::handle_hit never fails: the run never
\* panics there, and each handle_hit call on the counter follows a
\* start_new_file call on it for the same file, whose entry is in the map.
C19_HandleHitFindsEntry ==
    /\ pc # "panic_handle_hit"
    /\ \A k \in 1..Len(calls) :
           (calls[k].handler = "hit_counter" /\ calls[k].op = "handle_hit") =>
               /\ \E j \in 1..(k - 1) :
                      /\ calls[j].handler = "hit_counter"
                      /\ calls[j].op = "start_new_file"
                      /\ calls[j].file_path = calls[k].file_path
               /\ calls[k].file_path \in DOMAIN Tally

\* the counter has counted hits in two sources
C19_Witness ==
    /\ hit_counter # None
    /\ \A p \in Paths : p \in DOMAIN Tally /\ Tally[p] > 0


====
